---- MODULE Spec2Model ----
(***************************************************************************)
(* V4-link: byte-at-a-time frame receiver, frame codec and command         *)
(* dispatcher (src/src/link.cpp, frame.cpp, crc8.cpp), with the V4 VM and  *)
(* the UART sink as environment.                                           *)
(***************************************************************************)
EXTENDS Integers, Sequences, FiniteSets, TLC

(***************************************************************************)
(* Protocol constants                                                      *)
(***************************************************************************)
STX == 165
MAX_PAYLOAD_SIZE == 512
CRC8_POLY == 7

EXEC == 16
PING == 32
QUERY_STACK == 48
QUERY_MEMORY == 64
QUERY_WORD == 80
RESET == 255

ERR_OK == 0
ERR_GENERAL == 1
ERR_INVALID_FRAME == 2
ERR_BUFFER_FULL == 3
ERR_VM_ERROR == 4

\* buffer_size argument of the Link constructor (its default)
buffer_size == MAX_PAYLOAD_SIZE

(***************************************************************************)
(* Byte arithmetic                                                         *)
(***************************************************************************)
RECURSIVE Xor(_, _)
Xor(a, b) ==
    IF a = 0 THEN b
    ELSE IF b = 0 THEN a
    ELSE (((a % 2) + (b % 2)) % 2) + 2 * Xor(a \div 2, b \div 2)

\* variant: the polynomial is applied when the low bit of the register is set
Crc8Shift_lsb(crc) ==
    IF crc % 2 = 1 THEN Xor((crc * 2) % 256, CRC8_POLY)
    ELSE (crc * 2) % 256

\* one iteration of the inner loop of calc_crc8 (8-bit register)
Crc8Shift(crc) ==
    IF crc >= 128 THEN Xor((crc * 2) % 256, CRC8_POLY)
    ELSE (crc * 2) % 256

RECURSIVE Crc8Bits(_, _)
Crc8Bits(crc, bit) ==
    IF bit = 8 THEN crc ELSE Crc8Bits(Crc8Shift(crc), bit + 1)

\* the eight shifts of the inner loop, for every value of the register
Crc8Byte == [c \in 0..255 |-> Crc8Bits(c, 0)]

\* crc ^= byte, for every register value and byte
XorByte == [a \in 0..255 |-> [b \in 0..255 |-> Xor(a, b)]]

\* the outer loop of calc_crc8 over data[from..to] (1-based, inclusive),
\* entered with the register at crc; the bytes are folded left to right, the
\* range being split in halves and the register read first only to keep the
\* evaluation shallow (the register is never negative)
RECURSIVE Crc8From(_, _, _, _)
Crc8From(data, from, to, crc) ==
    IF crc < 0 \/ from > to THEN crc
    ELSE IF from = to THEN Crc8Byte[XorByte[crc][data[from]]]
    ELSE LET mid == (from + to) \div 2
         IN  Crc8From(data, mid + 1, to, Crc8From(data, from, mid, crc))

calc_crc8(data) == Crc8From(data, 1, Len(data), 0)

LenLo(n) == n % 256
LenHi(n) == (n \div 256) % 256

(***************************************************************************)
(* Frame codec                                                             *)
(***************************************************************************)
\* variant: the output is cleared before the size is checked
encode_frame_clear(cmd, data, out) ==
    IF Len(data) > MAX_PAYLOAD_SIZE
    THEN [ok |-> FALSE, out |-> <<>>]
    ELSE LET body == <<LenLo(Len(data)), LenHi(Len(data)), cmd>> \o data
         IN  [ok |-> TRUE, out |-> <<STX>> \o body \o <<calc_crc8(body)>>]

\* encode_frame: [ok |-> FALSE] leaves out untouched
encode_frame(cmd, data, out) ==
    IF Len(data) > MAX_PAYLOAD_SIZE
    THEN [ok |-> FALSE, out |-> out]
    ELSE LET body == <<LenLo(Len(data)), LenHi(Len(data)), cmd>> \o data
         IN  [ok |-> TRUE, out |-> <<STX>> \o body \o <<calc_crc8(body)>>]

\* encode_ack(err_code, out): out is cleared and filled with the frame
encode_ack(err_code, out) ==
    <<STX, 0, 1, err_code, calc_crc8(<<0, 1, err_code>>)>>

\* encode_ack(err_code, out, data, data_len) with a payload, as declared in
\* frame.hpp
encode_ack_data(err_code, data) ==
    LET n == 1 + Len(data)
        body == <<LenLo(n), LenHi(n), err_code>> \o data
    IN  <<STX>> \o body \o <<calc_crc8(body)>>

\* variant: the checksum is taken over the whole frame, start marker included
verify_frame_crc_stx(frame) ==
    IF Len(frame) < 5 THEN FALSE
    ELSE frame[Len(frame)] = Crc8From(frame, 1, Len(frame) - 1, 0)

\* variant: the top bit of the checksum byte is not compared
verify_frame_crc_low7(frame) ==
    IF Len(frame) < 5 THEN FALSE
    ELSE frame[Len(frame)] % 128 = Crc8From(frame, 2, Len(frame) - 1, 0) % 128

\* variant: no minimum length is required before the checksum is compared
verify_frame_crc_open(frame) ==
    IF Len(frame) < 2 THEN FALSE
    ELSE frame[Len(frame)] = Crc8From(frame, 2, Len(frame) - 1, 0)

verify_frame_crc(frame) ==
    IF Len(frame) < 5 THEN FALSE
    ELSE frame[Len(frame)] = Crc8From(frame, 2, Len(frame) - 1, 0)

(***************************************************************************)
(* Bounds of the model                                                     *)
(***************************************************************************)
\* capacity of the VM word table (the VM refuses registration beyond it)
MaxWords == 3
\* longest run of noise bytes the host puts in front of a frame
MaxGarbage == 2
\* transmissions in a row the host starts while the receiver is mid-frame
MaxDrift == 1
\* reset() is called while the storage holds at most this many buffers
MaxLeak == 1

(***************************************************************************)
(* State                                                                   *)
(***************************************************************************)
VARIABLES
    state_,             \* Link::state_
    buffer_,            \* Link::buffer_ (contents)
    capacity,           \* buffer_.capacity()
    pos_,               \* Link::pos_
    frame_len_,         \* Link::frame_len_
    cmd_,               \* Link::cmd_
    bytecode_storage_,  \* Link::bytecode_storage_
    vm_words,           \* VM word table: name, owning buffer, code length
    vm_ds,              \* VM data stack
    vm_rs,              \* VM return stack
    ub,                 \* the last call read outside the frame buffer
    fed,                \* byte consumed by the last feed_byte call, or -1
    acks,               \* send_ack calls of the last call: <<code, data>>
    uart_out,           \* frames written to the sink by the last call
    vm_calls,           \* VM operations invoked by the last call
    dispatched,         \* <<cmd, payload>> handed to a command handler, or <<>>
    wire,               \* bytes in flight from the host
    host,               \* what the host is sending now
    prev,               \* what the host sent before that
    pure                \* the last call of a function of the codec or relocator

link_vars == <<state_, buffer_, capacity, pos_, frame_len_, cmd_, bytecode_storage_>>
vm_vars == <<vm_words, vm_ds, vm_rs>>
effect_vars == <<fed, acks, uart_out, vm_calls, dispatched>>
host_vars == <<wire, host, prev>>
vars == <<link_vars, vm_vars, ub, effect_vars, host_vars, pure>>

(***************************************************************************)
(* std::vector growth of the frame buffer                                  *)
(***************************************************************************)
\* capacity after push_back on a vector of the given size and capacity
\* (reallocation doubles the capacity)
PushCapacity(size, cap) == IF size >= cap THEN (IF cap = 0 THEN 1 ELSE 2 * cap) ELSE cap

(***************************************************************************)
(* Little-endian fields                                                    *)
(***************************************************************************)
\* uint32_t read at 0-based offset off of p, kept as two 16-bit halves
U32LE(p, off) ==
    [lo |-> p[off + 1] + 256 * p[off + 2], hi |-> p[off + 3] + 256 * p[off + 4]]

\* u + n in uint32_t arithmetic (wraps at 2^32), for 0 <= n < 65536
U32Add(u, n) ==
    [lo |-> (u.lo + n) % 65536, hi |-> (u.hi + ((u.lo + n) \div 65536)) % 65536]

\* u > n for a size n below 65536
U32Gt(u, n) == u.hi > 0 \/ u.lo > n

U16LE(p, off) == (p[off + 1] + 256 * p[off + 2]) % 65536

\* the four bytes of an int32 / uint32 value, low byte first
LE32(v) ==
    LET u == IF v >= 0 THEN v ELSE (v + 2147483647) + 1
    IN  <<u % 256, (u \div 256) % 256, (u \div 65536) % 256,
          ((u \div 16777216) % 128) + (IF v >= 0 THEN 0 ELSE 128)>>

\* variant: high byte first
LE16_be(v) == <<(v \div 256) % 256, v % 256>>

LE16(v) == <<v % 256, (v \div 256) % 256>>

\* bytes [off, off + n) of p, 0-based
Bytes(p, off, n) == SubSeq(p, off + 1, off + n)

RECURSIVE Flatten(_)
Flatten(ss) == IF ss = <<>> THEN <<>> ELSE Head(ss) \o Flatten(Tail(ss))

(***************************************************************************)
(* VM collaborator (environment)                                           *)
(***************************************************************************)
StackChoices ==
    { [ds |-> <<>>, rs |-> <<>>],
      [ds |-> <<42, -1>>, rs |-> <<3>>] }

\* choices the VM makes during one request, and whether the build's pointer
\* arithmetic wraps when a 32-bit length is added to a pointer into the frame
Oracles ==
    [refuse : 0..3, exec_ok : BOOLEAN, stacks : StackChoices, qfail : {"none", "ds", "rs"},
     ptr_wraps : BOOLEAN]

\* name as the VM sees it through c_str(): cut at the first NUL
RECURSIVE CStr(_)
CStr(name) ==
    IF name = <<>> \/ Head(name) = 0 THEN <<>> ELSE <<Head(name)>> \o CStr(Tail(name))

\* vm_register_word: the new table and the index, -1 when the VM refuses
vm_register_word(words, anon, name, buf, len, refused) ==
    IF refused \/ Len(words) >= MaxWords
    THEN [wid |-> -1, words |-> words]
    ELSE [wid |-> Len(words),
          words |-> Append(words, [anon |-> anon, name |-> name, buf |-> buf, len |-> len])]

\* vm_get_word: non-null exactly for registered indices
vm_get_word(words, idx) == idx >= 0 /\ idx < Len(words)

\* vm_mem_read32: ok flag and value
vm_mem_read32(addr) ==
    IF addr.hi = 0 /\ addr.lo % 4 = 0 /\ addr.lo < 1024
    THEN [ok |-> TRUE, value |-> addr.lo * 65793 - 16777216]
    ELSE [ok |-> FALSE, value |-> 0]

(***************************************************************************)
(* Command dispatcher.  A handler maps the dispatcher's view                *)
(*   d = [storage, words, ds, rs, acks, calls, ub]                          *)
(* to its value after the handler returned.                                 *)
(***************************************************************************)
send_ack(d, code, data) == [d EXCEPT !.acks = Append(@, <<code, data>>)]

vm_call(d, call) == [d EXCEPT !.calls = Append(@, call)]

\* variant: PING answers with a payload byte
handle_cmd_ping_echo(d) == send_ack(d, ERR_OK, <<PING>>)

handle_cmd_ping(d) == send_ack(d, ERR_OK, <<>>)

\* RESET as it was before the storage was cleared with the VM
handle_cmd_reset_keep(d) ==
    send_ack([vm_call(d, <<"vm_reset">>) EXCEPT !.words = <<>>, !.ds = <<>>, !.rs = <<>>],
             ERR_OK, <<>>)

handle_cmd_reset(d) ==
    send_ack([vm_call(d, <<"vm_reset">>) EXCEPT
                 !.words = <<>>, !.ds = <<>>, !.rs = <<>>, !.storage = <<>>],
             ERR_OK, <<>>)

\* variant: a payload of 15 bytes is taken for a container as well
IsV4B_short(payload) ==
    /\ Len(payload) >= 15
    /\ payload[1] = 86 /\ payload[2] = 52 /\ payload[3] = 66 /\ payload[4] = 67

IsV4B(payload) ==
    /\ Len(payload) >= 16
    /\ payload[1] = 86 /\ payload[2] = 52 /\ payload[3] = 66 /\ payload[4] = 67

\* variant: the word is registered but its copy is not kept in the storage
register_copy_lost(d, anon, name, code, len, refused) ==
    LET stored == Append(d.storage, code)
        reg == vm_register_word(d.words, anon, name, Len(stored), len, refused)
        called == vm_call(d, <<"vm_register_word", anon, name, code, reg.wid>>)
    IN  IF reg.wid < 0
        THEN [d |-> called, wid |-> -1]
        ELSE [d |-> [called EXCEPT !.words = reg.words], wid |-> reg.wid]

\* variant: the copy of a refused word stays in the storage
register_copy_kept(d, anon, name, code, len, refused) ==
    LET stored == Append(d.storage, code)
        reg == vm_register_word(d.words, anon, name, Len(stored), len, refused)
        called == vm_call(d, <<"vm_register_word", anon, name, code, reg.wid>>)
    IN  IF reg.wid < 0
        THEN [d |-> [called EXCEPT !.storage = stored], wid |-> -1]
        ELSE [d |-> [called EXCEPT !.storage = stored, !.words = reg.words],
              wid |-> reg.wid]

\* push a copy of code to the storage and register it with the VM;
\* on refusal the copy is popped again
register_copy(d, anon, name, code, len, refused) ==
    LET stored == Append(d.storage, code)
        reg == vm_register_word(d.words, anon, name, Len(stored), len, refused)
        called == vm_call(d, <<"vm_register_word", anon, name, code, reg.wid>>)
    IN  IF reg.wid < 0
        THEN [d |-> called, wid |-> -1]
        ELSE [d |-> [called EXCEPT !.storage = stored, !.words = reg.words],
              wid |-> reg.wid]

\* variant: the word is looked up but never executed
get_and_exec_skip(d, wid, o) == vm_call(d, <<"vm_get_word", wid>>)

\* vm_get_word followed by vm_exec when the word resolves; the result of
\* vm_exec is not looked at
get_and_exec(d, wid, o) ==
    LET got == vm_call(d, <<"vm_get_word", wid>>)
    IN  IF vm_get_word(d.words, wid)
        THEN [vm_call(got, <<"vm_exec", wid, o.exec_ok>>) EXCEPT
                 !.ds = o.stacks.ds, !.rs = o.stacks.rs]
        ELSE got

\* the loop over word definitions of a .v4b payload, from iteration i on;
\* ptr is the 0-based offset of word_ptr in the payload
RECURSIVE exec_words(_, _, _, _, _, _, _)
exec_words(payload, i, word_count, ptr, d, indices, o) ==
    IF ~U32Gt(word_count, i) THEN [d |-> d, indices |-> indices, ok |-> TRUE]
    ELSE IF ptr + 1 > Len(payload)
    THEN [d |-> send_ack(d, ERR_GENERAL, <<>>), indices |-> indices, ok |-> FALSE]
    ELSE
      LET name_len == payload[ptr + 1]
          p1 == ptr + 1
      IN  IF p1 + name_len + 4 > Len(payload)
          THEN [d |-> send_ack(d, ERR_GENERAL, <<>>), indices |-> indices, ok |-> FALSE]
          ELSE
            LET word_name == Bytes(payload, p1, name_len)
                p2 == p1 + name_len
                word_code_len == U32LE(payload, p2)
                p3 == p2 + 4
            IN  \* word_ptr + word_code_len is pointer arithmetic: with a length
                \* of 64 KiB or more the sum leaves the buffer, and where
                \* pointers are 32 bits wide it can wrap below payload_end, so
                \* that the copy of the code runs outside the frame
                IF word_code_len.hi > 0 /\ o.ptr_wraps
                THEN [d |-> [d EXCEPT !.ub = TRUE], indices |-> indices, ok |-> FALSE]
                ELSE IF word_code_len.hi > 0 \/ p3 + word_code_len.lo > Len(payload)
                THEN [d |-> send_ack(d, ERR_GENERAL, <<>>), indices |-> indices, ok |-> FALSE]
                ELSE
                  LET r == register_copy(d, FALSE, CStr(word_name),
                                         Bytes(payload, p3, word_code_len.lo),
                                         word_code_len.lo,
                                         o.refuse = Len(indices) + 1)
                  IN  IF r.wid < 0
                      THEN [d |-> send_ack(r.d, ERR_VM_ERROR, <<>>), indices |-> indices,
                            ok |-> FALSE]
                      ELSE exec_words(payload, i + 1, word_count, p3 + word_code_len.lo,
                                      r.d, Append(indices, r.wid), o)

\* response payload of EXEC: count byte, then each index as u16 LE
exec_response(indices) ==
    <<Len(indices) % 256>> \o Flatten([i \in 1..Len(indices) |-> LE16(indices[i])])

handle_cmd_exec(payload, d, o) ==
    IF IsV4B(payload)
    THEN
      LET version_minor == payload[6]
          code_size == U32LE(payload, 8)
          word_count == IF version_minor >= 2 THEN U32LE(payload, 12)
                        ELSE [lo |-> 0, hi |-> 0]
      IN  \* 16 + code_size is computed in uint32_t
          IF U32Gt(U32Add(code_size, 16), Len(payload))
          THEN send_ack(d, ERR_GENERAL, <<>>)
          ELSE IF code_size.hi > 0
          THEN \* the sum wrapped: the copies read far outside the frame buffer
               [d EXCEPT !.ub = TRUE]
          ELSE
            LET w == exec_words(payload, 0, word_count, 16 + code_size.lo, d, <<>>, o)
            IN  IF ~w.ok THEN w.d
                ELSE
                  LET r == register_copy(w.d, TRUE, <<>>, Bytes(payload, 16, code_size.lo),
                                         code_size.lo, o.refuse = Len(w.indices) + 1)
                  IN  IF r.wid < 0
                      THEN send_ack(r.d, ERR_VM_ERROR, <<>>)
                      ELSE send_ack(get_and_exec(r.d, r.wid, o), ERR_OK,
                                    exec_response(Append(w.indices, r.wid)))
    ELSE
      LET r == register_copy(d, TRUE, <<>>, payload, Len(payload), o.refuse = 1)
      IN  IF r.wid < 0
          THEN send_ack(r.d, ERR_VM_ERROR, <<>>)
          ELSE send_ack(get_and_exec(r.d, r.wid, o), ERR_OK, <<1>> \o LE16(r.wid))

Min(a, b) == IF a < b THEN a ELSE b

\* the first count values of a stack, four bytes each, low byte first
stack_bytes(stack, count) ==
    [k \in 1..(4 * count) |-> LE32(stack[((k - 1) \div 4) + 1])[((k - 1) % 4) + 1]]

handle_cmd_query_stack(d, o) ==
    LET d1 == vm_call(d, <<"vm_ds_depth_public">>)
    IN  IF o.qfail = "ds" THEN send_ack(d1, ERR_VM_ERROR, <<>>)
        ELSE
          LET ds_depth == Len(d.ds)
              ds_count == Min(ds_depth, 256)
              d2 == IF ds_depth > 0 THEN vm_call(d1, <<"vm_ds_copy_to_array">>) ELSE d1
              ds_part == <<ds_depth % 256>> \o
                         stack_bytes(d.ds, IF ds_depth > 0 THEN ds_count ELSE 0)
              d3 == vm_call(d2, <<"vm_rs_depth_public">>)
          IN  IF o.qfail = "rs" THEN send_ack(d3, ERR_VM_ERROR, <<>>)
              ELSE
                LET rs_depth == Len(d.rs)
                    rs_count == Min(rs_depth, 64)
                    d4 == IF rs_depth > 0 THEN vm_call(d3, <<"vm_rs_copy_to_array">>) ELSE d3
                    rs_part == <<rs_depth % 256>> \o
                               stack_bytes(d.rs, IF rs_depth > 0 THEN rs_count ELSE 0)
                IN  send_ack(d4, ERR_OK, ds_part \o rs_part)

\* the read loop of QUERY_MEMORY from index i on
RECURSIVE query_memory_loop(_, _, _)
query_memory_loop(addr, len, i) ==
    IF i >= len THEN <<>>
    ELSE
      LET rd == vm_mem_read32(U32Add(addr, i))
          value == IF rd.ok THEN rd.value ELSE 0
      IN  SubSeq(LE32(value), 1, Min(4, len - i)) \o query_memory_loop(addr, len, i + 4)

RECURSIVE query_memory_calls(_, _, _)
query_memory_calls(addr, len, i) ==
    IF i >= len THEN <<>>
    ELSE <<<<"vm_mem_read32", U32Add(addr, i)>>>> \o query_memory_calls(addr, len, i + 4)

\* variant: a refused read fails the whole request
handle_cmd_query_memory_strict(payload, d) ==
    IF Len(payload) < 6 THEN send_ack(d, ERR_INVALID_FRAME, <<>>)
    ELSE
      LET addr == U32LE(payload, 0)
          len == Min(U16LE(payload, 4), 256)
          d1 == [d EXCEPT !.calls = @ \o query_memory_calls(addr, len, 0)]
      IN  IF \E i \in 0..(len - 1) : i % 4 = 0 /\ ~vm_mem_read32(U32Add(addr, i)).ok
          THEN send_ack(d1, ERR_VM_ERROR, <<>>)
          ELSE send_ack(d1, ERR_OK, query_memory_loop(addr, len, 0))

handle_cmd_query_memory(payload, d) ==
    IF Len(payload) < 6 THEN send_ack(d, ERR_INVALID_FRAME, <<>>)
    ELSE
      LET addr == U32LE(payload, 0)
          len == Min(U16LE(payload, 4), 256)
      IN  send_ack([d EXCEPT !.calls = @ \o query_memory_calls(addr, len, 0)],
                   ERR_OK, query_memory_loop(addr, len, 0))

\* variant: the name is sent in full, up to the 255 bytes its length byte holds
handle_cmd_query_word_full(payload, d) ==
    IF Len(payload) < 2 THEN send_ack(d, ERR_INVALID_FRAME, <<>>)
    ELSE
      LET word_idx == U16LE(payload, 0)
          d1 == vm_call(d, <<"vm_get_word", word_idx>>)
      IN  IF ~vm_get_word(d.words, word_idx) THEN send_ack(d1, ERR_VM_ERROR, <<>>)
          ELSE
            LET word == d.words[word_idx + 1]
                name == IF word.anon THEN <<>> ELSE word.name
                code_len == word.len % 65536
            IN  send_ack(d1, ERR_OK,
                         <<Len(name) % 256>> \o name \o LE16(code_len) \o
                         SubSeq(d.storage[word.buf], 1, code_len))

handle_cmd_query_word(payload, d) ==
    IF Len(payload) < 2 THEN send_ack(d, ERR_INVALID_FRAME, <<>>)
    ELSE
      LET word_idx == U16LE(payload, 0)
          d1 == vm_call(d, <<"vm_get_word", word_idx>>)
      IN  IF ~vm_get_word(d.words, word_idx) THEN send_ack(d1, ERR_VM_ERROR, <<>>)
          ELSE
            LET word == d.words[word_idx + 1]
                name == IF word.anon THEN <<>> ELSE word.name
                name_len == Min(Len(name), 63)
                code_len == word.len % 65536
                d2 == [d1 EXCEPT !.calls = @ \o <<<<"vm_word_get_name", word_idx>>,
                                                  <<"vm_word_get_code_len", word_idx>>,
                                                  <<"vm_word_get_code", word_idx>>>>]
            IN  IF word.buf > Len(d.storage) \/ code_len > Len(d.storage[word.buf])
                THEN [d2 EXCEPT !.ub = TRUE]
                ELSE send_ack(d2, ERR_OK,
                              <<name_len>> \o SubSeq(name, 1, name_len) \o LE16(code_len) \o
                              SubSeq(d.storage[word.buf], 1, code_len))

\* variant: the command is dispatched without looking at the checksum
handle_frame_unchecked(buf, cmd, frame_len, d, o) ==
    LET payload == Bytes(buf, 4, frame_len)
    IN  IF cmd = EXEC THEN handle_cmd_exec(payload, d, o)
        ELSE IF cmd = PING THEN handle_cmd_ping(d)
        ELSE IF cmd = QUERY_STACK THEN handle_cmd_query_stack(d, o)
        ELSE IF cmd = QUERY_MEMORY THEN handle_cmd_query_memory(payload, d)
        ELSE IF cmd = QUERY_WORD THEN handle_cmd_query_word(payload, d)
        ELSE IF cmd = RESET THEN handle_cmd_reset(d)
        ELSE send_ack(d, ERR_GENERAL, <<>>)

\* variant: a command that is not recognised is acknowledged
handle_frame_ok_default(buf, cmd, frame_len, d, o) ==
    LET payload == Bytes(buf, 4, frame_len)
    IN  IF ~verify_frame_crc(buf) THEN send_ack(d, ERR_INVALID_FRAME, <<>>)
        ELSE IF cmd = EXEC THEN handle_cmd_exec(payload, d, o)
        ELSE IF cmd = PING THEN handle_cmd_ping(d)
        ELSE IF cmd = QUERY_STACK THEN handle_cmd_query_stack(d, o)
        ELSE IF cmd = QUERY_MEMORY THEN handle_cmd_query_memory(payload, d)
        ELSE IF cmd = QUERY_WORD THEN handle_cmd_query_word(payload, d)
        ELSE IF cmd = RESET THEN handle_cmd_reset(d)
        ELSE send_ack(d, ERR_OK, <<>>)

\* variant: a command that is not recognised is treated as RESET
handle_frame_reset_default(buf, cmd, frame_len, d, o) ==
    LET payload == Bytes(buf, 4, frame_len)
    IN  IF ~verify_frame_crc(buf) THEN send_ack(d, ERR_INVALID_FRAME, <<>>)
        ELSE IF cmd = EXEC THEN handle_cmd_exec(payload, d, o)
        ELSE IF cmd = PING THEN handle_cmd_ping(d)
        ELSE IF cmd = QUERY_STACK THEN handle_cmd_query_stack(d, o)
        ELSE IF cmd = QUERY_MEMORY THEN handle_cmd_query_memory(payload, d)
        ELSE IF cmd = QUERY_WORD THEN handle_cmd_query_word(payload, d)
        ELSE handle_cmd_reset(d)

\* Link::handle_frame on a complete frame buffer
handle_frame(buf, cmd, frame_len, d, o) ==
    LET payload == Bytes(buf, 4, frame_len)
    IN  IF ~verify_frame_crc(buf) THEN send_ack(d, ERR_INVALID_FRAME, <<>>)
        ELSE IF cmd = EXEC THEN handle_cmd_exec(payload, d, o)
        ELSE IF cmd = PING THEN handle_cmd_ping(d)
        ELSE IF cmd = QUERY_STACK THEN handle_cmd_query_stack(d, o)
        ELSE IF cmd = QUERY_MEMORY THEN handle_cmd_query_memory(payload, d)
        ELSE IF cmd = QUERY_WORD THEN handle_cmd_query_word(payload, d)
        ELSE IF cmd = RESET THEN handle_cmd_reset(d)
        ELSE send_ack(d, ERR_GENERAL, <<>>)

\* what handle_frame hands to a handler: nothing when the CRC check fails
Dispatch(buf, cmd, frame_len) ==
    IF verify_frame_crc(buf) THEN <<cmd, Bytes(buf, 4, frame_len)>> ELSE <<>>

(***************************************************************************)
(* Frame receiver                                                          *)
(***************************************************************************)
NoEffect ==
    /\ acks' = <<>>
    /\ uart_out' = <<>>
    /\ vm_calls' = <<>>
    /\ dispatched' = <<>>

\* the sink receives one encoded frame per send_ack
Written(ack_list) ==
    [i \in 1..Len(ack_list) |->
        IF ack_list[i][2] = <<>> THEN encode_ack(ack_list[i][1], <<>>)
        ELSE encode_ack_data(ack_list[i][1], ack_list[i][2])]

AckCodes(ack_list) == [i \in 1..Len(ack_list) |-> ack_list[i][1]]

\* variant: the start marker restarts reception in every state
StartsFrame_resync(st, byte) == byte = STX

\* variant: any byte starts a frame in WAIT_STX
StartsFrame_any(st, byte) == st = "WAIT_STX"

\* variant: a start marker in the checksum position starts the next frame
StartsFrame_crc(st, byte) == st \in {"WAIT_STX", "WAIT_CRC"} /\ byte = STX

\* the byte starts a frame: only in WAIT_STX, only the start marker
StartsFrame(st, byte) == st = "WAIT_STX" /\ byte = STX

\* variant: the buffer is not cleared at the start of a frame
ClearPush_keep(buf, byte) == Append(buf, byte)

\* buffer_.clear(); buffer_.push_back(byte)
ClearPush(buf, byte) == <<byte>>

\* frame_len_ > buffer_.capacity() - 4
ExceedsCapacity(len, cap) == len > cap - 4

\* Link::feed_byte(byte); answers is the set of things the VM may answer if a
\* handler runs
feed_byte(byte, answers) ==
    LET pushed == Append(buffer_, byte)
        grown == PushCapacity(Len(buffer_), capacity)
    IN
    /\ fed' = byte
    /\ \/ /\ StartsFrame(state_, byte)
          /\ buffer_' = ClearPush(buffer_, byte)
          /\ pos_' = 0
          /\ state_' = "WAIT_LEN_L"
          /\ capacity' = PushCapacity(0, capacity)
          /\ UNCHANGED <<frame_len_, cmd_, bytecode_storage_, vm_vars, ub>>
          /\ NoEffect
       \/ /\ ~StartsFrame(state_, byte)
          /\ state_ = "WAIT_STX"
          /\ UNCHANGED <<link_vars, vm_vars, ub>>
          /\ NoEffect
       \/ /\ ~StartsFrame(state_, byte)
          /\ state_ = "WAIT_LEN_L"
          /\ buffer_' = pushed
          /\ capacity' = grown
          /\ frame_len_' = byte
          /\ state_' = "WAIT_LEN_H"
          /\ UNCHANGED <<pos_, cmd_, bytecode_storage_, vm_vars, ub>>
          /\ NoEffect
       \/ /\ ~StartsFrame(state_, byte)
          /\ state_ = "WAIT_LEN_H"
          /\ buffer_' = pushed
          /\ capacity' = grown
          \* frame_len_ |= byte << 8 (frame_len_ holds the low octet)
          /\ frame_len_' = (frame_len_ % 256) + 256 * byte
          /\ IF ExceedsCapacity(frame_len_', grown)
             THEN /\ acks' = <<<<ERR_BUFFER_FULL, <<>>>>>>
                  /\ uart_out' = Written(acks')
                  /\ vm_calls' = <<>>
                  /\ dispatched' = <<>>
                  /\ state_' = "WAIT_STX"
             ELSE /\ NoEffect
                  /\ state_' = "WAIT_CMD"
          /\ UNCHANGED <<pos_, cmd_, bytecode_storage_, vm_vars, ub>>
       \/ /\ ~StartsFrame(state_, byte)
          /\ state_ = "WAIT_CMD"
          /\ buffer_' = pushed
          /\ capacity' = grown
          /\ cmd_' = byte
          /\ pos_' = 0
          /\ state_' = IF frame_len_ = 0 THEN "WAIT_CRC" ELSE "WAIT_DATA"
          /\ UNCHANGED <<frame_len_, bytecode_storage_, vm_vars, ub>>
          /\ NoEffect
       \/ /\ ~StartsFrame(state_, byte)
          /\ state_ = "WAIT_DATA"
          /\ buffer_' = pushed
          /\ capacity' = grown
          /\ pos_' = pos_ + 1
          /\ state_' = IF pos_' >= frame_len_ THEN "WAIT_CRC" ELSE "WAIT_DATA"
          /\ UNCHANGED <<frame_len_, cmd_, bytecode_storage_, vm_vars, ub>>
          /\ NoEffect
       \/ /\ ~StartsFrame(state_, byte)
          /\ state_ = "WAIT_CRC"
          /\ buffer_' = pushed
          /\ capacity' = grown
          /\ \E d \in {handle_frame(pushed, cmd_, frame_len_,
                                     [storage |-> bytecode_storage_, words |-> vm_words,
                                      ds |-> vm_ds, rs |-> vm_rs,
                                      acks |-> <<>>, calls |-> <<>>, ub |-> FALSE], o) :
                         o \in answers} :
                 /\ bytecode_storage_' = d.storage
                 /\ vm_words' = d.words
                 /\ vm_ds' = d.ds
                 /\ vm_rs' = d.rs
                 /\ ub' = d.ub
                 /\ acks' = d.acks
                 /\ uart_out' = Written(d.acks)
                 /\ vm_calls' = d.calls
                 /\ dispatched' = Dispatch(pushed, cmd_, frame_len_)
          /\ state_' = "WAIT_STX"
          /\ UNCHANGED <<pos_, frame_len_, cmd_>>

\* variant: reset() also restarts the frame reception
link_reset_all ==
    /\ vm_words' = <<>>
    /\ vm_ds' = <<>>
    /\ vm_rs' = <<>>
    /\ fed' = -1
    /\ acks' = <<>>
    /\ uart_out' = <<>>
    /\ vm_calls' = <<<<"vm_reset">>>>
    /\ dispatched' = <<>>
    /\ state_' = "WAIT_STX"
    /\ buffer_' = <<>>
    /\ pos_' = 0
    /\ UNCHANGED <<capacity, frame_len_, cmd_, bytecode_storage_, ub>>

\* Link::reset(): vm_reset only
link_reset ==
    /\ vm_words' = <<>>
    /\ vm_ds' = <<>>
    /\ vm_rs' = <<>>
    /\ fed' = -1
    /\ acks' = <<>>
    /\ uart_out' = <<>>
    /\ vm_calls' = <<<<"vm_reset">>>>
    /\ dispatched' = <<>>
    /\ UNCHANGED <<link_vars, ub>>

(***************************************************************************)
(* Host side: what is put on the wire                                      *)
(***************************************************************************)
\* a .v4b container as the parser of handle_cmd_exec reads it
V4BRecord(w) == <<Len(w.name)>> \o w.name \o LE32(Len(w.code)) \o w.code

V4B(version_minor, code, words) ==
    <<86, 52, 66, 67, 0, version_minor, 0, 0>> \o LE32(Len(code)) \o LE32(Len(words)) \o
    code \o Flatten([i \in 1..Len(words) |-> V4BRecord(words[i])])

Lit42 == <<0, 42, 0, 0, 0, 81>>
WordA == [name |-> <<97>>, code |-> <<1, 81>>]
WordB == [name |-> <<98, 99>>, code |-> <<2, 81>>]
MainCode == <<80, 0, 0, 80, 1, 0, 81>>
LongPayload == [i \in 1..buffer_size |-> 170]

\* requests of the dispatcher specification
\* containers with k = 0 and k = 2 word definitions
Containers ==
    { [code |-> Lit42, words |-> <<>>],
      [code |-> MainCode, words |-> <<WordA, WordB>>] }

\* the container of two words with its last byte missing: the code of the
\* second record reaches past the payload end
CutContainer ==
    LET full == V4B(2, MainCode, <<WordA, WordB>>) IN SubSeq(full, 1, Len(full) - 1)

\* a container whose second record declares 0xFFFFFFFF bytes of code
HugeRecord ==
    <<86, 52, 66, 67, 0, 2, 0, 0>> \o LE32(Len(MainCode)) \o LE32(2) \o MainCode \o
    V4BRecord(WordA) \o <<1, 98, 255, 255, 255, 255, 2, 81>>

\* a header whose code-size field is 0xFFFFFFFF
WrapHeader == <<86, 52, 66, 67, 0, 2, 0, 0, 255, 255, 255, 255, 0, 0, 0, 0>>

\* 6 bytes from address 1020: the last word the VM reads and the first it
\* refuses
ReadAcrossEnd == <<252, 3, 0, 0, 6, 0>>

\* 260 bytes from address 0
ReadTooMuch == <<0, 0, 0, 0, 4, 1>>

Requests ==
    { <<PING, <<>>>>, <<PING, <<STX, 1>>>>, <<RESET, <<>>>>, <<66, <<>>>>,
      <<EXEC, Lit42>>, <<EXEC, WrapHeader>>, <<EXEC, CutContainer>>,
      <<EXEC, HugeRecord>>,
      <<QUERY_STACK, <<>>>>,
      <<QUERY_MEMORY, <<0, 0, 0, 0, 6, 0>>>>, <<QUERY_MEMORY, <<1>>>>,
      <<QUERY_MEMORY, ReadAcrossEnd>>, <<QUERY_MEMORY, ReadTooMuch>>,
      <<QUERY_WORD, <<0, 0>>>>, <<QUERY_WORD, <<0>>>> }
    \cup { <<EXEC, V4B(2, c.code, c.words)>> : c \in Containers }

\* requests that are also sent with a damaged checksum
Damaged == { <<PING, <<>>>>, <<RESET, <<>>>>, <<66, <<>>>>, <<EXEC, Lit42>> }

\* requests of the synchronisation specification
SyncRequests ==
    { <<PING, <<>>>>, <<PING, <<STX, 1>>>>, <<RESET, <<>>>>, <<66, <<>>>>,
      <<QUERY_STACK, <<>>>>, <<QUERY_WORD, <<0, 0>>>>, <<QUERY_WORD, <<0>>>> }

\* a frame of the largest payload the link is configured for
FullSize == { <<PING, LongPayload>> }

\* requests of the other commands, sent undamaged only
Probes == { <<EXEC, WrapHeader>>, <<QUERY_MEMORY, <<1>>>> }

\* noise without and with the start marker
PlainNoise == {0, 255}
MarkerNoise == {0, STX}
OversizeLens == {buffer_size + 1, 65535}

NoTx ==
    [kind |-> "none", cmd |-> 0, payload |-> <<>>, aligned |-> TRUE, drift |-> 0,
     resp |-> <<>>, words |-> 0]

\* the host keeps sending while the receiver is out of step for at most
\* MaxDrift transmissions in a row
MayTransmit == state_ = "WAIT_STX" \/ host.drift < MaxDrift

Drift == IF state_ = "WAIT_STX" THEN 0 ELSE host.drift + 1

\* what is remembered of a finished transmission
Summary(tx) ==
    [kind |-> tx.kind, aligned |-> tx.aligned,
     full |-> (\E i \in 1..Len(tx.resp) : tx.resp[i] = ERR_BUFFER_FULL),
     stx |-> (tx.kind = "garbage" /\ \E i \in 1..Len(tx.payload) : tx.payload[i] = STX)]

Untracked == [kind |-> "untracked", aligned |-> TRUE, full |-> FALSE, stx |-> FALSE]

NoOracle == [refuse |-> 0, exec_ok |-> TRUE, stacks |-> [ds |-> <<>>, rs |-> <<>>],
             qfail |-> "none", ptr_wraps |-> FALSE]

\* what the VM may answer during the next feed_byte call: it is only asked
\* when the byte completes a frame, for registration and execution by EXEC
\* and for the stack depths by QUERY_STACK
Answers ==
    IF state_ # "WAIT_CRC" THEN {NoOracle}
    ELSE IF cmd_ = EXEC THEN {o \in Oracles : o.qfail = NoOracle.qfail}
    ELSE IF cmd_ = QUERY_STACK
    THEN {o \in Oracles : /\ o.refuse = NoOracle.refuse
                          /\ o.exec_ok = NoOracle.exec_ok
                          /\ o.stacks = NoOracle.stacks}
    ELSE {NoOracle}

\* the host starts a transmission and the polling loop hands its first byte
\* to feed_byte; track says whether the transmission before is remembered
Transmit(kind, cmd, payload, bytes, track) ==
    /\ ~ub
    /\ wire = <<>>
    /\ MayTransmit
    /\ feed_byte(Head(bytes), Answers)
    /\ wire' = Tail(bytes)
    /\ pure' = pure
    /\ host' = [kind |-> kind, cmd |-> cmd, payload |-> payload,
                aligned |-> (state_ = "WAIT_STX"), drift |-> Drift,
                resp |-> AckCodes(acks'), words |-> Len(vm_words)]
    /\ prev' = IF track THEN Summary(host) ELSE prev

HostValid(menu, track) ==
    \E r \in menu :
        Transmit("valid", r[1], r[2], encode_frame(r[1], r[2], <<>>).out, track)

\* a frame whose checksum byte was damaged
HostBadCrc(menu, track) ==
    \E r \in menu :
        LET f == encode_frame(r[1], r[2], <<>>).out
        IN  Transmit("badcrc", r[1], r[2], [f EXCEPT ![Len(f)] = Xor(@, 255)], track)

\* a frame whose length field was damaged
HostWrongLen(menu, track) ==
    \E r \in menu, delta \in {-1, 2} :
        LET f == encode_frame(r[1], r[2], <<>>).out
            n == Len(r[2]) + delta
        IN  /\ n >= 0
            /\ n <= MAX_PAYLOAD_SIZE
            /\ Transmit("wronglen", r[1], r[2],
                        [f EXCEPT ![2] = LenLo(n), ![3] = LenHi(n)], track)

\* the header of a frame that declares more than the configured buffer size
HostOversize(track) ==
    \E n \in OversizeLens :
        Transmit("oversize", 0, <<n>>, <<STX, LenLo(n), LenHi(n)>>, track)

\* line noise, handed to feed_byte byte by byte; with track, a run of noise
\* bytes counts as one transmission and is remembered byte by byte
HostGarbage(noise, track) ==
    \E b \in noise :
        /\ ~ub
        /\ wire = <<>>
        /\ feed_byte(b, Answers)
        /\ wire' = <<>>
        /\ pure' = pure
        /\ IF track /\ host.kind = "garbage"
           THEN /\ Len(host.payload) < MaxGarbage
                /\ host' = [host EXCEPT !.payload = Append(@, b),
                                        !.resp = @ \o AckCodes(acks')]
                /\ prev' = prev
           ELSE /\ MayTransmit
                /\ host' = [kind |-> "garbage", cmd |-> 0, payload |-> <<b>>,
                            aligned |-> (state_ = "WAIT_STX"), drift |-> Drift,
                            resp |-> AckCodes(acks'), words |-> Len(vm_words)]
                /\ prev' = IF track THEN Summary(host) ELSE prev

\* the polling loop hands the next byte to feed_byte
Feed ==
    /\ ~ub
    /\ wire # <<>>
    /\ state_ # "WAIT_CRC"
    /\ feed_byte(Head(wire), {NoOracle})
    /\ wire' = Tail(wire)
    /\ pure' = pure
    /\ host' = [host EXCEPT !.resp = @ \o AckCodes(acks')]
    /\ prev' = prev

\* the byte completes a frame: handle_frame runs against the VM
FeedLast ==
    /\ ~ub
    /\ wire # <<>>
    /\ state_ = "WAIT_CRC"
    /\ feed_byte(Head(wire), Answers)
    /\ wire' = Tail(wire)
    /\ pure' = pure
    /\ host' = [host EXCEPT !.resp = @ \o AckCodes(acks'), !.words = Len(vm_words)]
    /\ prev' = prev

\* the application calls reset()
Reset ==
    /\ ~ub
    /\ vm_words # <<>> \/ vm_ds # <<>>
    /\ Len(bytecode_storage_) <= MaxLeak
    /\ link_reset
    /\ UNCHANGED <<host_vars, pure>>

\* no function of the codec or relocator has been called on its own
NoCall == <<"none", <<>>, <<>>>>

InitLink ==
    /\ state_ = "WAIT_STX"
    /\ buffer_ = <<>>
    /\ capacity = buffer_size + 4
    /\ pos_ = 0
    /\ frame_len_ = 0
    /\ cmd_ = 0
    /\ bytecode_storage_ = <<>>
    /\ vm_words = <<>>
    /\ vm_ds = <<>>
    /\ vm_rs = <<>>
    /\ ub = FALSE
    /\ fed = -1
    /\ acks = <<>>
    /\ uart_out = <<>>
    /\ vm_calls = <<>>
    /\ dispatched = <<>>
    /\ wire = <<>>
    /\ host = NoTx
    /\ pure = NoCall

\* dispatcher specification: every command, containers, damaged checksums
Init ==
    /\ InitLink
    /\ prev = Untracked

Next ==
    \/ HostValid(Requests, FALSE)
    \/ HostBadCrc(Damaged, FALSE)
    \/ HostOversize(FALSE)
    \/ HostGarbage(PlainNoise, FALSE)
    \/ Feed
    \/ FeedLast
    \/ Reset

Spec == Init /\ [][Next]_vars

(***************************************************************************)
(* Codec specification: the encoders fill the buffer a peer link is fed    *)
(* from                                                                    *)
(***************************************************************************)
TooLong == [i \in 1..(MAX_PAYLOAD_SIZE + 1) |-> 170]

\* arguments of encode_frame
CodecFrames ==
    { <<PING, <<>>>>, <<EXEC, <<16, 32, 48>>>>, <<EXEC, TooLong>> }

ErrorCodes == {ERR_OK, ERR_GENERAL, ERR_INVALID_FRAME, ERR_BUFFER_FULL, ERR_VM_ERROR}

\* response payloads passed to encode_ack
AckData == { <<1, 0, 0>>, <<0, 0>> }

\* an encoder may refill the output buffer until the first byte is taken
\* from it
MayEncode == ~ub /\ (wire = <<>> \/ fed = -1) /\ MayTransmit

\* the output buffer after an encoder call, and what was asked of it
Encoded(kind, code, data, out) ==
    /\ MayEncode
    /\ wire' = out
    /\ pure' = pure
    /\ host' = [kind |-> kind, cmd |-> code, payload |-> data,
                aligned |-> (state_ = "WAIT_STX"), drift |-> Drift, resp |-> <<>>,
                words |-> Len(vm_words)]
    /\ fed' = -1
    /\ NoEffect
    /\ prev' = prev
    /\ UNCHANGED <<link_vars, vm_vars, ub>>

CallEncodeFrame ==
    \E r \in CodecFrames :
        LET e == encode_frame(r[1], r[2], wire)
        IN  Encoded(IF e.ok THEN "frame" ELSE "refused", r[1], r[2], e.out)

CallEncodeAck == \E c \in ErrorCodes : Encoded("ack", c, <<>>, encode_ack(c, wire))

CallEncodeAckData ==
    \E c \in {ERR_OK}, x \in AckData : Encoded("ack", c, x, encode_ack_data(c, x))

NextCodec ==
    \/ CallEncodeFrame
    \/ CallEncodeAck
    \/ CallEncodeAckData
    \/ Feed
    \/ FeedLast

SpecCodec == Init /\ [][NextCodec]_vars

(***************************************************************************)
(* Function specification: calc_crc8, verify_frame_crc and relocate_calls  *)
(* called on their own with arguments drawn from bounded sets              *)
(***************************************************************************)
\* longest byte sequence drawn freely for calc_crc8
MaxCrcLen == 2

CrcBytes == {0, 1, 66, 128, 255}

\* "123456789"
CheckString == <<49, 50, 51, 52, 53, 54, 55, 56, 57>>

CrcInputs ==
    UNION {[1..k -> CrcBytes] : k \in 0..MaxCrcLen}
    \cup {CheckString, <<1, 2, 3>>, <<1, 2, 4>>}

\* a call that touches nothing of the link: the function, its arguments and
\* what it returned
Called(fn, args, ret) ==
    /\ pure' = <<fn, args, ret>>
    /\ UNCHANGED <<link_vars, vm_vars, ub, effect_vars, host_vars>>

CallCrc8 ==
    /\ pure = NoCall
    /\ \E data \in CrcInputs :
        Called("calc_crc8", data, calc_crc8(data))

\* requests whose frames are verified
VerifyRequests == { <<PING, <<>>>>, <<EXEC, <<16, 32, 48>>>>, <<66, <<STX, 1>>>> }

\* verify_frame_crc on a frame and on the same frame with another last byte
CallVerify ==
    /\ pure = NoCall
    /\ \E r \in VerifyRequests, b \in 0..255 :
        LET f == encode_frame(r[1], r[2], <<>>).out
            g == SubSeq(f, 1, Len(f) - 1) \o <<b>>
        IN  Called("verify_frame_crc", <<f, b>>,
                   <<verify_frame_crc(f), verify_frame_crc(g)>>)

\* buffers shorter than the shortest frame
ShortBuffers == UNION {[1..k -> {0, 1, STX}] : k \in 0..4}

CallVerifyShort ==
    /\ pure = NoCall
    /\ \E f \in ShortBuffers :
        Called("verify_frame_crc_short", f, verify_frame_crc(f))

\* ---- the relocator ----

\* the opcodes the relocator is documented and tested with
OP_LIT == 0
OP_DUP == 1
OP_JMP == 64
OP_CALL == 80
OP_RET == 81
OP_SYS == 96
OP_LIT_U8 == 118

\* SYS as an instruction with a one-byte operand
operand_width_sys1(op) ==
    CASE op = OP_LIT -> 4
      [] op = OP_JMP -> 2
      [] op = OP_CALL -> 2
      [] op = OP_SYS -> 1
      [] op = OP_LIT_U8 -> 1
      [] OTHER -> 0

\* the number of operand bytes that follow an opcode
operand_width(op) ==
    CASE op = OP_LIT -> 4
      [] op = OP_JMP -> 2
      [] op = OP_CALL -> 2
      [] op = OP_SYS -> 16
      [] op = OP_LIT_U8 -> 1
      [] OTHER -> 0

\* the offset stored instead of added
relocated_set(operand, offset) == offset % 65536

\* a word index moved by offset, as a uint16_t
relocated(operand, offset) == (operand + offset) % 65536

\* the operand of the instruction at i measured against the bytes behind the
\* pointer instead of the given length
truncated_by_capacity(code, len, i) == i + operand_width(code[i]) > Len(code)

\* the instruction at i lacks operand bytes within len
truncated(code, len, i) == i + operand_width(code[i]) > len

\* the walk from the instruction at index i (counted from 1); the result is the
\* buffer and the highest index read or written so far
RECURSIVE relocate_from(_, _, _, _, _)
relocate_from(code, len, offset, i, reach) ==
    IF i > len THEN <<code, reach>>
    ELSE IF truncated(code, len, i) THEN <<code, i>>
    ELSE IF code[i] = OP_CALL
         THEN LET idx == relocated(code[i + 1] + 256 * code[i + 2], offset)
              IN  relocate_from([code EXCEPT ![i + 1] = idx % 256,
                                             ![i + 2] = idx \div 256],
                                len, offset, i + 3, i + 2)
         ELSE relocate_from(code, len, offset, i + 1 + operand_width(code[i]), i)

relocate_calls(code, len, offset) == relocate_from(code, len, offset, 1, 0)

\* a 16-byte SYS operand that holds the opcode of CALL
SysOperand == <<0, OP_CALL, 0, 0, 1, 0, 0, 0, 0, 1, 0, 0, 0, OP_CALL, 0, 1>>

\* instructions as opcode and operand bytes
Instructions ==
    { <<OP_LIT, <<OP_CALL, 0, 0, OP_CALL>>>>,
      <<OP_DUP, <<>>>>,
      <<OP_JMP, <<OP_CALL, 0>>>>,
      <<OP_CALL, <<0, 0>>>>,
      <<OP_CALL, <<255, 0>>>>,
      <<OP_CALL, <<251, 255>>>>,
      <<OP_RET, <<>>>>,
      <<OP_SYS, SysOperand>>,
      <<OP_LIT_U8, <<OP_CALL>>>> }

MaxInstr == 2

Programs == UNION {[1..k -> Instructions] : k \in 0..MaxInstr}

\* the bytes of a program
RECURSIVE Assemble(_)
Assemble(prog) ==
    IF prog = <<>> THEN <<>>
    ELSE <<prog[1][1]>> \o prog[1][2] \o Assemble(Tail(prog))

Offsets == {0, 1, 5, 1000, -5, 65536}

\* relocate_calls on a program, on every length up to the whole buffer
CallRelocate ==
    /\ pure = NoCall
    /\ \E prog \in Programs, offset \in Offsets :
        \E len \in 0..Len(Assemble(prog)) :
            Called("relocate_calls", <<prog, len, offset>>,
                   relocate_calls(Assemble(prog), len, offset))

\* ---- QUERY_STACK on deep stacks ----

\* depths of the data stack (256 slots) and of the return stack (64 slots)
DsDepths == {0, 1, 2, 127, 128, 255, 256}
RsDepths == {0, 1, 64}

\* a stack of n values, negative ones among them
StackOf(n) == [i \in 1..n |-> 3 * i - 5]

\* a QUERY_STACK frame dispatched on a VM whose stacks have the given depths;
\* the result is what was handed to send_ack
CallQueryStack ==
    /\ pure = NoCall
    /\ \E n \in DsDepths, m \in RsDepths, q \in {"none", "ds", "rs"} :
        Called("handle_cmd_query_stack", <<StackOf(n), StackOf(m), q>>,
               handle_frame(encode_frame(QUERY_STACK, <<>>, <<>>).out, QUERY_STACK, 0,
                            [storage |-> <<>>, words |-> <<>>,
                             ds |-> StackOf(n), rs |-> StackOf(m),
                             acks |-> <<>>, calls |-> <<>>, ub |-> FALSE],
                            [NoOracle EXCEPT !.qfail = q]).acks)

\* ---- QUERY_WORD on words of several names ----

\* a name of 64 bytes, and its first 63
LongName == [i \in 1..64 |-> 97 + (i % 26)]
Name63 == SubSeq(LongName, 1, 63)

\* what the VM was loaded with before the query: nothing, bare bytecode, or a
\* container
Loads ==
    { <<>>, Lit42,
      V4B(2, MainCode, <<WordA, WordB>>),
      V4B(2, Lit42, <<[name |-> Name63, code |-> <<1, 81>>]>>),
      V4B(2, Lit42, <<[name |-> LongName, code |-> <<1, 81>>], WordA>>) }

WordQueries == { <<>>, <<0>>, <<0, 0>>, <<1, 0>>, <<2, 0>>, <<0, 1>>, <<0, 0, 9>> }

NoView ==
    [storage |-> <<>>, words |-> <<>>, ds |-> <<>>, rs |-> <<>>,
     acks |-> <<>>, calls |-> <<>>, ub |-> FALSE]

\* the link after an EXEC frame with the load was handled
Loaded(load) ==
    IF load = <<>> THEN NoView
    ELSE [handle_frame(encode_frame(EXEC, load, <<>>).out, EXEC, Len(load), NoView, NoOracle)
          EXCEPT !.acks = <<>>, !.calls = <<>>]

\* a QUERY_WORD frame dispatched after a load; recorded are the words the VM
\* holds as <<anonymous, name, code>>, the request payload, the response and
\* whether the VM and the storage are as before
CallQueryWord ==
    /\ pure = NoCall
    /\ \E load \in Loads, payload \in WordQueries :
        LET d == Loaded(load)
            r == handle_frame(encode_frame(QUERY_WORD, payload, <<>>).out, QUERY_WORD,
                              Len(payload), d, NoOracle)
            held == [i \in 1..Len(d.words) |->
                        <<d.words[i].anon, d.words[i].name,
                          SubSeq(d.storage[d.words[i].buf], 1, d.words[i].len)>>]
            kept == /\ r.words = d.words /\ r.storage = d.storage
                    /\ r.ds = d.ds /\ r.rs = d.rs /\ ~r.ub
        IN  Called("handle_cmd_query_word", <<held, payload>>, <<r.acks, kept>>)

\* ---- EXEC on payloads with and without the container header ----

\* bare bytecode; the magic alone; a container cut to 15 bytes; a container
\* with one magic byte changed; containers of version-minor 1 and 0 that carry
\* a word count and records; one whose count field is 0xFFFFFFFF; a container
\* of version-minor 2
ExecPayloads ==
    { Lit42,
      <<86, 52, 66, 67>>,
      SubSeq(V4B(2, Lit42, <<>>), 1, 15),
      [V4B(2, Lit42, <<WordA>>) EXCEPT ![4] = 68],
      V4B(1, Lit42, <<WordA, WordB>>),
      V4B(0, MainCode, <<WordA>>),
      [V4B(1, Lit42, <<>>) EXCEPT ![13] = 255, ![14] = 255, ![15] = 255, ![16] = 255],
      V4B(2, MainCode, <<WordA, WordB>>) }

\* an EXEC frame dispatched on a link that holds no word, with a VM that
\* accepts every registration or refuses the first; recorded are the
\* responses and the calls made to the VM
CallExec ==
    /\ pure = NoCall
    /\ \E payload \in ExecPayloads, refuse \in {0, 1} :
        LET r == handle_frame(encode_frame(EXEC, payload, <<>>).out, EXEC, Len(payload),
                              NoView, [NoOracle EXCEPT !.refuse = refuse])
        IN  Called("handle_cmd_exec", <<payload, refuse>>, <<r.acks, r.calls>>)

\* the caller is done with the result
Return ==
    /\ pure # NoCall
    /\ pure' = NoCall
    /\ UNCHANGED <<link_vars, vm_vars, ub, effect_vars, host_vars>>

NextPure ==
    \/ CallCrc8
    \/ CallVerify
    \/ CallVerifyShort
    \/ CallRelocate
    \/ CallQueryStack
    \/ CallQueryWord
    \/ CallExec
    \/ Return

SpecPure == Init /\ [][NextPure]_vars

\* synchronisation specification: full-size frames, damaged frames, noise,
\* remembering the transmission before the current one
InitSync ==
    /\ InitLink
    /\ prev = Summary(NoTx)

NextSync ==
    \/ HostValid(SyncRequests \cup FullSize \cup Probes, TRUE)
    \/ HostBadCrc(SyncRequests, TRUE)
    \/ HostWrongLen(SyncRequests, TRUE)
    \/ HostOversize(TRUE)
    \/ HostGarbage(MarkerNoise, TRUE)
    \/ Feed
    \/ FeedLast

SpecSync == InitSync /\ [][NextSync]_vars

(***************************************************************************)
(* API specification: feed_byte, reset() and buffer_capacity() as the       *)
(* application calls them                                                   *)
(***************************************************************************)
ApiRequests ==
    { <<PING, <<>>>>, <<EXEC, Lit42>>, <<QUERY_WORD, <<0, 0>>>>,
      <<EXEC, V4B(2, MainCode, <<WordA, WordB>>)>> }

\* v4link_create: a buffer_size of 0 stands for the default
v4link_create_size(arg) == IF arg = 0 THEN MAX_PAYLOAD_SIZE ELSE arg

\* Link::buffer_capacity() on a buffer of capacity cap
buffer_capacity(cap) == cap

\* v4link_buffer_capacity on a handle: 0 without a link
v4link_buffer_capacity(handle, cap) ==
    IF handle = "null" THEN 0 ELSE buffer_capacity(cap)

\* the application asks for the capacity, of the link or of a NULL handle;
\* the link was created with buffer_size 0 or with the default itself
CallBufferCapacity ==
    /\ ~ub
    /\ \E handle \in {"link", "null"}, arg \in {0, MAX_PAYLOAD_SIZE} :
           /\ buffer_size = v4link_create_size(arg)
           /\ pure' = <<"v4link_buffer_capacity", <<handle, arg>>,
                        v4link_buffer_capacity(handle, capacity)>>
    /\ UNCHANGED <<link_vars, vm_vars, ub, effect_vars, host_vars>>

NextApi ==
    \/ HostValid(ApiRequests, FALSE)
    \/ HostOversize(FALSE)
    \/ Feed
    \/ FeedLast
    \/ Reset
    \/ CallBufferCapacity

SpecApi == Init /\ [][NextApi]_vars

(***************************************************************************)
(* Properties                                                              *)
(***************************************************************************)
\* C1 (as stated): once the last byte of a valid frame of any command, sent
\* to a receiver in WAIT_STX, is consumed, that command and payload were
\* dispatched and no BUFFER_FULL or INVALID_FRAME response was sent.
C1_Original ==
    (host.kind = "valid" /\ host.aligned /\ wire = <<>> /\ fed # -1) =>
        /\ dispatched = <<host.cmd, host.payload>>
        /\ \A i \in 1..Len(host.resp) :
               host.resp[i] \notin {ERR_BUFFER_FULL, ERR_INVALID_FRAME}

\* C1: for every command and payload of 0..512 bytes encode_frame succeeds
\* with [0xA5][n lo][n hi][cmd][payload][crc], verify_frame_crc accepts the
\* frame, and a receiver that was in WAIT_STX dispatches exactly that command
\* and payload on the last byte, with no BUFFER_FULL response; an
\* INVALID_FRAME response comes only from the QUERY_MEMORY and QUERY_WORD
\* handlers, for a payload shorter than their 6 and 2 bytes.
C1_RoundTrip ==
    (host.kind = "valid" /\ host.aligned /\ wire = <<>> /\ fed # -1) =>
        LET n == Len(host.payload)
            body == <<n % 256, n \div 256, host.cmd>> \o host.payload
            e == encode_frame(host.cmd, host.payload, <<>>)
        IN  /\ e.ok
            /\ e.out = <<165>> \o body \o <<calc_crc8(body)>>
            /\ verify_frame_crc(e.out)
            /\ buffer_ = e.out
            /\ state_ = "WAIT_STX"
            /\ dispatched = <<host.cmd, host.payload>>
            /\ \A i \in 1..Len(host.resp) :
                   /\ host.resp[i] # ERR_BUFFER_FULL
                   /\ host.resp[i] = ERR_INVALID_FRAME =>
                          \/ host.cmd = QUERY_MEMORY /\ n < 6
                          \/ host.cmd = QUERY_WORD /\ n < 2

\* a frame with a payload of the full configured size was decoded
C1_Witness ==
    /\ host.kind = "valid" /\ host.aligned /\ wire = <<>> /\ fed # -1
    /\ Len(host.payload) = buffer_size
    /\ dispatched = <<host.cmd, host.payload>>
    /\ host.resp = <<ERR_OK>>

C3_Original ==
    [][(/\ state_ = "WAIT_LEN_H"
        /\ fed' # -1
        /\ buffer_[2] + 256 * fed' > buffer_size) =>
           /\ state_' = "WAIT_STX"
           /\ acks' = <<<<ERR_BUFFER_FULL, <<>>>>>>
           /\ Len(uart_out') = 1]_vars

\* C4: a completed frame whose last byte is not the CRC-8 of
\* [len lo][len hi][cmd][payload] is answered with exactly one INVALID_FRAME
\* response; no VM operation is invoked and the bytecode storage and the VM
\* are unchanged, whatever the command byte.
C4_BadCrcRejected ==
    [][(/\ state_ = "WAIT_CRC"
        /\ fed' # -1
        /\ fed' # calc_crc8(SubSeq(buffer_, 2, Len(buffer_)))) =>
           /\ acks' = <<<<ERR_INVALID_FRAME, <<>>>>>>
           /\ Len(uart_out') = 1
           /\ vm_calls' = <<>>
           /\ dispatched' = <<>>
           /\ UNCHANGED <<bytecode_storage_, vm_vars>>]_vars

\* an EXEC frame with a damaged checksum was rejected while words were
\* registered
C4_Witness ==
    /\ host.kind = "badcrc" /\ host.cmd = EXEC /\ wire = <<>> /\ fed # -1
    /\ acks = <<<<ERR_INVALID_FRAME, <<>>>>>>
    /\ vm_calls = <<>>
    /\ vm_words # <<>>
    /\ bytecode_storage_ # <<>>

\* C5: after one malformed frame (damaged checksum, oversized declared
\* length, or damaged length field) sent to a receiver in WAIT_STX, the next
\* valid frame is received from WAIT_STX and dispatched with its own command
\* and payload.
C5_Original ==
    (/\ host.kind = "valid" /\ wire = <<>> /\ fed # -1
     /\ prev.kind \in {"badcrc", "oversize", "wronglen"} /\ prev.aligned) =>
        /\ host.aligned
        /\ dispatched = <<host.cmd, host.payload>>

C7_Original ==
    [][fed' # -1 =>
           Len(uart_out') =
               IF \/ state_ = "WAIT_CRC"
                  \/ state_ = "WAIT_LEN_H" /\ state_' = "WAIT_STX"
               THEN 1 ELSE 0]_vars

C9_Original ==
    (/\ host.kind = "valid" /\ host.cmd = EXEC /\ wire = <<>> /\ fed # -1
     /\ IsV4B(host.payload)
     /\ \E i \in 1..Len(vm_calls) :
            vm_calls[i][1] = "vm_exec" /\ ~vm_calls[i][3]) =>
        acks = <<<<ERR_VM_ERROR, <<>>>>>>

C11_Original ==
    \A p \in {CutContainer, HugeRecord} :
        (/\ host.kind = "valid" /\ host.cmd = EXEC /\ wire = <<>> /\ fed # -1
         /\ host.payload = p
         /\ \A i \in 1..Len(vm_calls) :
                vm_calls[i][1] = "vm_register_word" => vm_calls[i][5] >= 0) =>
            /\ acks = <<<<ERR_GENERAL, <<>>>>>>
            /\ Len(vm_calls) = 1
            /\ LET wid == vm_calls[1][5]
               IN  /\ vm_calls[1] = <<"vm_register_word", FALSE, WordA.name,
                                      WordA.code, wid>>
                   /\ vm_words[wid + 1].name = WordA.name
                   /\ bytecode_storage_[vm_words[wid + 1].buf] = WordA.code

\* C12: when a frame completes an EXEC request whose payload is a container
\* with 16 + code-size greater than the payload length (the sum taken over
\* the integers, for every 32-bit code-size), the response is GENERAL_ERROR,
\* no word is registered and no buffer is stored.
C12_Original ==
    [][(/\ state_ = "WAIT_CRC" /\ fed' # -1 /\ cmd_ = EXEC
        /\ fed' = calc_crc8(SubSeq(buffer_, 2, Len(buffer_)))
        /\ LET payload == SubSeq(buffer_, 5, Len(buffer_))
           IN  /\ IsV4B(payload)
               /\ \/ U32LE(payload, 8).hi > 0
                  \/ 16 + U32LE(payload, 8).lo > Len(payload)) =>
           /\ acks' = <<<<ERR_GENERAL, <<>>>>>>
           /\ vm_calls' = <<>>
           /\ UNCHANGED <<bytecode_storage_, vm_words>>]_vars

\* C13: the feed_byte call that completes a CRC-valid RESET frame resets the
\* VM (vm_reset: word table and stacks empty), empties the bytecode storage
\* and responds OK; and while the word table is as the RESET left it, a
\* well-formed QUERY_WORD for any index is answered with VM_ERROR.
C13_ResetFrame ==
    [][(/\ state_ = "WAIT_CRC" /\ fed' # -1
        /\ fed' = calc_crc8(SubSeq(buffer_, 2, Len(buffer_)))) =>
           /\ cmd_ = RESET =>
                 /\ vm_calls' = <<<<"vm_reset">>>>
                 /\ vm_words' = <<>> /\ vm_ds' = <<>> /\ vm_rs' = <<>>
                 /\ bytecode_storage_' = <<>>
                 /\ acks' = <<<<ERR_OK, <<>>>>>>
           /\ (cmd_ = QUERY_WORD /\ frame_len_ >= 2 /\ vm_words = <<>>) =>
                 /\ acks' = <<<<ERR_VM_ERROR, <<>>>>>>
                 /\ vm_words' = <<>>]_vars

\* a RESET frame was completed while the VM held words, was answered OK and
\* left the VM and the storage empty
C13_Witness ==
    /\ host.kind = "valid" /\ host.cmd = RESET /\ wire = <<>> /\ fed # -1
    /\ host.aligned /\ host.words > 0
    /\ host.resp = <<ERR_OK>>
    /\ vm_words = <<>> /\ vm_ds = <<>> /\ bytecode_storage_ = <<>>

\* C14: after every feed_byte and reset() call, each word the VM holds
\* refers to a buffer that is present in the bytecode storage and has the
\* registered length; a word registered by the call has the code uploaded for
\* it in its buffer, and the buffer of a word that the VM held before the
\* call and still holds is unchanged.
C14_BuffersOutliveWords ==
    [][/\ \A i \in 1..Len(vm_words') :
              /\ vm_words'[i].buf \in 1..Len(bytecode_storage_')
              /\ Len(bytecode_storage_'[vm_words'[i].buf]) = vm_words'[i].len
       /\ \A i \in 1..Len(vm_words') :
              (i <= Len(vm_words) /\ fed' # -1) =>
                  /\ vm_words'[i] = vm_words[i]
                  /\ bytecode_storage_'[vm_words'[i].buf] =
                         bytecode_storage_[vm_words[i].buf]
       /\ \A k \in 1..Len(vm_calls') :
              (vm_calls'[k][1] = "vm_register_word" /\ vm_calls'[k][5] >= 0) =>
                  LET w == vm_words'[vm_calls'[k][5] + 1]
                  IN  /\ vm_calls'[k][5] >= Len(vm_words)
                      /\ bytecode_storage_'[w.buf] = vm_calls'[k][4]]_vars

\* the VM holds three words registered after a reset() that left a buffer of
\* an earlier request in the storage
C14_Witness ==
    /\ Len(vm_words) = 3
    /\ Len(bytecode_storage_) > 3
    /\ \E i \in 1..3 : vm_words[i].buf > 3
    /\ ~ub

\* C15: a feed_byte call changes the bytecode storage or the VM word table
\* only when it completes a CRC-valid EXEC frame, which leaves the buffers
\* already stored in place and may add some, or a CRC-valid RESET frame,
\* which empties the storage; every other call (any other command, a bad
\* checksum, an oversized length, a discarded or buffered byte) leaves both
\* unchanged.
C15_StorageChanges ==
    [][fed' # -1 =>
           LET completes == /\ state_ = "WAIT_CRC"
                            /\ fed' = calc_crc8(SubSeq(buffer_, 2, Len(buffer_)))
           IN  /\ (~completes \/ cmd_ \notin {EXEC, RESET}) =>
                      UNCHANGED <<bytecode_storage_, vm_words>>
               /\ (completes /\ cmd_ = EXEC) =>
                      /\ Len(bytecode_storage_') >= Len(bytecode_storage_)
                      /\ SubSeq(bytecode_storage_', 1, Len(bytecode_storage_)) =
                             bytecode_storage_
               /\ (completes /\ cmd_ = RESET) => bytecode_storage_' = <<>>]_vars

\* a QUERY_MEMORY frame was answered while the VM held words, and the
\* storage still holds their buffers
C15_Witness ==
    /\ host.kind = "valid" /\ host.cmd = QUERY_MEMORY /\ wire = <<>> /\ fed # -1
    /\ host.aligned /\ host.words > 0
    /\ Len(vm_words) = host.words
    /\ Len(bytecode_storage_) >= host.words

\* C16: the feed_byte call that completes a CRC-valid PING frame, whatever
\* its payload, writes exactly one response, OK without extra payload (5
\* bytes on the wire), calls no VM function, and leaves the VM and the
\* bytecode storage unchanged.
C16_Ping ==
    [][(/\ state_ = "WAIT_CRC" /\ fed' # -1 /\ cmd_ = PING
        /\ fed' = calc_crc8(SubSeq(buffer_, 2, Len(buffer_)))) =>
           /\ acks' = <<<<ERR_OK, <<>>>>>>
           /\ Len(uart_out') = 1
           /\ Len(uart_out'[1]) = 5
           /\ uart_out'[1][4] = ERR_OK
           /\ vm_calls' = <<>>
           /\ UNCHANGED <<bytecode_storage_, vm_vars>>]_vars

\* a PING frame with a two-byte payload was answered OK while the VM held
\* words
C16_Witness ==
    /\ host.kind = "valid" /\ host.cmd = PING /\ wire = <<>> /\ fed # -1
    /\ host.payload = <<STX, 1>>
    /\ host.aligned /\ host.words > 0
    /\ host.resp = <<ERR_OK>>
    /\ Len(vm_words) = host.words

\* C17: the feed_byte call that completes a CRC-valid frame whose command
\* byte is none of EXEC, PING, QUERY_STACK, QUERY_MEMORY, QUERY_WORD, RESET
\* sends exactly one response, GENERAL_ERROR, calls no VM function, changes
\* neither the VM nor the storage, and leaves the receiver in WAIT_STX.
C17_UnknownCommand ==
    [][(/\ state_ = "WAIT_CRC" /\ fed' # -1
        /\ cmd_ \notin {EXEC, PING, QUERY_STACK, QUERY_MEMORY, QUERY_WORD, RESET}
        /\ fed' = calc_crc8(SubSeq(buffer_, 2, Len(buffer_)))) =>
           /\ acks' = <<<<ERR_GENERAL, <<>>>>>>
           /\ Len(uart_out') = 1
           /\ vm_calls' = <<>>
           /\ state_' = "WAIT_STX"
           /\ UNCHANGED <<bytecode_storage_, vm_vars>>]_vars

\* a frame with the command byte 0x42 was answered GENERAL_ERROR while the
\* VM held words
C17_Witness ==
    /\ host.kind = "valid" /\ host.cmd = 66 /\ wire = <<>> /\ fed # -1
    /\ host.aligned /\ host.words > 0
    /\ host.resp = <<ERR_GENERAL>>
    /\ state_ = "WAIT_STX"
    /\ Len(vm_words) = host.words

\* C18: encode_ack(code, extra) fills the output with
\* [0xA5][L lo][L hi][code][extra][crc], L = 1 + the length of extra in
\* little-endian order and crc the CRC-8 of the bytes between the start
\* marker and the crc; without extra payload these are 5 bytes with the
\* length bytes 0x01, 0x00.
C18_Original ==
    (host.kind = "ack" /\ fed = -1) =>
        LET L == 1 + Len(host.payload)
            body == <<L % 256, L \div 256, host.cmd>> \o host.payload
        IN  /\ wire = <<STX>> \o body \o <<calc_crc8(body)>>
            /\ host.payload = <<>> =>
                   Len(wire) = 5 /\ wire[2] = 1 /\ wire[3] = 0

\* C19: a frame produced by encode_ack, fed byte by byte to a receiver that
\* was in WAIT_STX, is consumed as one complete frame: after its last byte
\* the receiver is in WAIT_STX again, holds the bytes encode_frame produces
\* for the same code and payload, and the checksum has verified.
C19_Original ==
    (host.kind = "ack" /\ host.aligned /\ wire = <<>> /\ fed # -1) =>
        /\ state_ = "WAIT_STX"
        /\ buffer_ = encode_frame(host.cmd, host.payload, <<>>).out
        /\ verify_frame_crc(buffer_)
        /\ dispatched = <<host.cmd, host.payload>>

\* C20: an encode_frame call with a payload of more than 512 bytes returns
\* failure and leaves the output buffer exactly as it was before the call.
C20_EncodeRefused ==
    [][(/\ fed' = -1
        /\ host'.kind \in {"frame", "refused"}
        /\ Len(host'.payload) > MAX_PAYLOAD_SIZE) =>
           /\ host'.kind = "refused"
           /\ wire' = wire]_vars

\* encode_frame refused 513 bytes while the output buffer held an earlier
\* frame, and the buffer still holds it
C20_Witness ==
    /\ host.kind = "refused" /\ fed = -1
    /\ Len(host.payload) = MAX_PAYLOAD_SIZE + 1
    /\ wire # <<>>
    /\ wire[1] = STX

\* C21: calc_crc8 equals the CRC-8 of polynomial 0x07 with initial value
\* 0x00, no reflection and no final xor, computed here bit by bit, most
\* significant bit first, over the whole message; the empty range gives 0x00
\* and "123456789" gives 0xF4.
C21_Crc8 ==
    pure[1] = "calc_crc8" =>
        LET data == pure[2]
            \* the register after one more message bit
            Step(r, bit) ==
                LET sh == (r * 2) % 256
                IN  IF ((r \div 128) + bit) % 2 = 1 THEN XorByte[sh][7] ELSE sh
            Bit(byte, i) == (byte \div (2 ^ (7 - i))) % 2
            \* the register after the first k bytes of the message
            Serial[k \in 0..Len(data)] ==
                IF k = 0 THEN 0
                ELSE LET b == data[k]
                         r0 == Serial[k - 1]
                         r1 == Step(r0, Bit(b, 0))
                         r2 == Step(r1, Bit(b, 1))
                         r3 == Step(r2, Bit(b, 2))
                         r4 == Step(r3, Bit(b, 3))
                         r5 == Step(r4, Bit(b, 4))
                         r6 == Step(r5, Bit(b, 5))
                         r7 == Step(r6, Bit(b, 6))
                     IN  \* the registers are read in the order they are
                         \* computed; each is a byte
                         IF /\ r0 \in 0..255 /\ r1 \in 0..255
                            /\ r2 \in 0..255 /\ r3 \in 0..255
                            /\ r4 \in 0..255 /\ r5 \in 0..255
                            /\ r6 \in 0..255 /\ r7 \in 0..255
                         THEN Step(r7, Bit(b, 7))
                         ELSE -1
        IN  /\ pure[3] = Serial[Len(data)]
            /\ data = <<>> => pure[3] = 0
            /\ data = <<49, 50, 51, 52, 53, 54, 55, 56, 57>> => pure[3] = 244

\* calc_crc8 was called on "123456789" and returned 0xF4
C21_Witness ==
    /\ pure[1] = "calc_crc8"
    /\ pure[2] = <<49, 50, 51, 52, 53, 54, 55, 56, 57>>
    /\ pure[3] = 244

\* C22: when verify_frame_crc accepts a frame, it rejects the same frame with
\* its last byte replaced by any other value, a single flipped bit included.
C22_ChecksumByte ==
    pure[1] = "verify_frame_crc" =>
        LET frame == pure[2][1]
            byte == pure[2][2]
        IN  (pure[3][1] /\ byte # frame[Len(frame)]) => ~pure[3][2]

\* an accepted frame was rejected after the top bit of its checksum byte was
\* flipped
C22_Witness ==
    /\ pure[1] = "verify_frame_crc"
    /\ pure[3][1]
    /\ Len(pure[2][1]) = 8
    /\ pure[2][2] = (pure[2][1][8] + 128) % 256
    /\ ~pure[3][2]

\* C23: verify_frame_crc returns invalid for every buffer of 0 to 4 bytes,
\* also when the last byte equals the checksum of the bytes between the first
\* and the last.
C23_FailsClosed ==
    (pure[1] = "verify_frame_crc_short" /\ Len(pure[2]) < 5) => ~pure[3]

\* a 3-byte buffer whose last byte is the checksum of its middle byte was
\* reported invalid
C23_Witness ==
    /\ pure[1] = "verify_frame_crc_short"
    /\ pure[2] = <<STX, 0, 0>>
    /\ calc_crc8(<<0>>) = 0
    /\ ~pure[3]

\* C24: relocate_calls on a buffer of whole instructions, with a nonzero
\* offset, positive or negative, returns the buffer with the operand of every
\* CALL instruction replaced by (operand + offset) mod 65536, little-endian,
\* and every other byte as it was, the operand bytes of LIT, JMP, LIT_U8 and
\* SYS that equal 0x50 included.
C24_CallsMoved ==
    (/\ pure[1] = "relocate_calls"
     /\ pure[2][3] # 0
     /\ pure[2][2] = Len(Assemble(pure[2][1]))) =>
        LET prog == pure[2][1]
            offset == pure[2][3]
            Moved(ins) ==
                IF ins[1] # OP_CALL THEN ins
                ELSE LET idx == (ins[2][1] + 256 * ins[2][2] + offset) % 65536
                     IN  <<OP_CALL, <<idx % 256, idx \div 256>>>>
        IN  pure[3][1] = Assemble([k \in 1..Len(prog) |-> Moved(prog[k])])

\* SYS with an operand that holds 0x50, followed by CALL 0, was relocated by
\* -5: the call became CALL 0xFFFB and the 17 bytes of SYS stayed
C24_Witness ==
    /\ pure[1] = "relocate_calls"
    /\ pure[2] = << << <<OP_SYS, SysOperand>>, <<OP_CALL, <<0, 0>>>> >>, 20, -5 >>
    /\ pure[3][1] = <<OP_SYS>> \o SysOperand \o <<OP_CALL, 251, 255>>

\* C25: relocate_calls with offset 0 returns the buffer byte for byte as it
\* was, for every program and every length given.
C25_ZeroOffset ==
    (pure[1] = "relocate_calls" /\ pure[2][3] = 0) =>
        pure[3][1] = Assemble(pure[2][1])

\* CALL 255 and CALL 0xFFFB were relocated by 0 and came back unchanged
C25_Witness ==
    /\ pure[1] = "relocate_calls"
    /\ pure[2] = << << <<OP_CALL, <<255, 0>>>>, <<OP_CALL, <<251, 255>>>> >>, 6, 0 >>
    /\ pure[3][1] = <<OP_CALL, 255, 0, OP_CALL, 251, 255>>

\* C26: relocate_calls touches no index beyond the given length; the bytes
\* from the first instruction that does not fit in the length on, and all
\* bytes behind the length, are as they were; with length 0 nothing is read.
C26_StopsAtLength ==
    pure[1] = "relocate_calls" =>
        LET prog == pure[2][1]
            len == pure[2][2]
            code == Assemble(prog)
            out == pure[3][1]
            reach == pure[3][2]
            \* the index of the opcode of instruction k, and of its last byte
            First(k) == Len(Assemble(SubSeq(prog, 1, k - 1))) + 1
            Last(k) == Len(Assemble(SubSeq(prog, 1, k)))
        IN  /\ reach <= len
            /\ Len(out) = Len(code)
            /\ \A j \in 1..Len(code) : j > len => out[j] = code[j]
            /\ \A k \in 1..Len(prog) :
                   Last(k) > len =>
                       \A j \in First(k)..Len(code) : out[j] = code[j]
            /\ len = 0 => (reach = 0 /\ out = code)

\* CALL 0 followed by a CALL of which only the opcode and one operand byte
\* are within the length: the first call was moved, the second left alone
C26_Witness ==
    /\ pure[1] = "relocate_calls"
    /\ pure[2] = << << <<OP_CALL, <<0, 0>>>>, <<OP_CALL, <<255, 0>>>> >>, 5, 1 >>
    /\ pure[3] = << <<OP_CALL, 1, 0, OP_CALL, 255, 0>>, 4 >>

\* C27: a QUERY_MEMORY request with fewer than 6 payload bytes is answered
\* INVALID_FRAME and no VM function is called; any other is answered OK with
\* min(len, 256) bytes, byte k being byte k mod 4 of the word the VM returns
\* for address addr + 4 * (k div 4), low byte first, or 0 when the VM refuses
\* that read; the VM is asked for exactly those words.
C27_QueryMemory ==
    (dispatched # <<>> /\ dispatched[1] = QUERY_MEMORY) =>
        LET payload == dispatched[2]
        IN  IF Len(payload) < 6
            THEN acks = <<<<ERR_INVALID_FRAME, <<>>>>>> /\ vm_calls = <<>>
            ELSE LET addr == [lo |-> payload[1] + 256 * payload[2],
                              hi |-> payload[3] + 256 * payload[4]]
                     len == Min(payload[5] + 256 * payload[6], 256)
                     WordAt(k) ==
                         LET rd == vm_mem_read32(U32Add(addr, 4 * (k \div 4)))
                         IN  IF rd.ok THEN rd.value ELSE 0
                     ByteOf(v, j) == (v \div (256 ^ j)) % 256
                 IN  /\ Len(acks) = 1
                     /\ acks[1][1] = ERR_OK
                     /\ Len(acks[1][2]) = len
                     /\ \A k \in 0..(len - 1) :
                            acks[1][2][k + 1] = ByteOf(WordAt(k), k % 4)
                     /\ Len(vm_calls) = (len + 3) \div 4
                     /\ \A n \in 1..Len(vm_calls) :
                            vm_calls[n] = <<"vm_mem_read32", U32Add(addr, 4 * (n - 1))>>

\* six bytes were asked from address 1020: the response is OK, the word at
\* 1020 followed by two zero bytes for the word at 1024 that the VM refused
C27_Witness ==
    /\ dispatched = <<QUERY_MEMORY, ReadAcrossEnd>>
    /\ vm_mem_read32([lo |-> 1020, hi |-> 0]).ok
    /\ ~vm_mem_read32([lo |-> 1024, hi |-> 0]).ok
    /\ acks = <<<<ERR_OK, LE32(vm_mem_read32([lo |-> 1020, hi |-> 0]).value) \o <<0, 0>>>>>>
    /\ acks[1][2][1] # 0

\* C28 as stated: QUERY_STACK answers VM_ERROR without data when a depth
\* query fails, and otherwise OK with the data-stack depth in one byte, that
\* many values of four bytes, low byte first, the return-stack depth in one
\* byte and that many values, for data-stack depths 0..256 and return-stack
\* depths 0..64.
C28_Original ==
    pure[1] = "handle_cmd_query_stack" =>
        LET ds == pure[2][1]
            rs == pure[2][2]
            acks_ == pure[3]
            data == acks_[1][2]
            ByteOf(v, j) == (v \div (256 ^ j)) % 256
        IN  /\ Len(acks_) = 1
            /\ IF pure[2][3] # "none"
               THEN acks_[1] = <<ERR_VM_ERROR, <<>>>>
               ELSE /\ acks_[1][1] = ERR_OK
                    /\ Len(data) = 2 + 4 * (Len(ds) + Len(rs))
                    /\ data[1] = Len(ds)
                    /\ \A i \in 1..Len(ds), j \in 0..3 :
                           data[1 + 4 * (i - 1) + j + 1] = ByteOf(ds[i], j)
                    /\ data[2 + 4 * Len(ds)] = Len(rs)
                    /\ \A i \in 1..Len(rs), j \in 0..3 :
                           data[2 + 4 * Len(ds) + 4 * (i - 1) + j + 1] = ByteOf(rs[i], j)

\* C29 as stated: QUERY_WORD answers INVALID_FRAME when the payload has fewer
\* than 2 bytes, VM_ERROR when the VM has no word at the index, and otherwise
\* OK with the length of the word's name, the name, the length of its code in
\* two bytes, low byte first, and the code; the VM and the storage stay as
\* they were.
C29_Original ==
    pure[1] = "handle_cmd_query_word" =>
        LET held == pure[2][1]
            payload == pure[2][2]
            idx == payload[1] + 256 * payload[2]
            name == IF held[idx + 1][1] THEN <<>> ELSE held[idx + 1][2]
            code == held[idx + 1][3]
        IN  /\ pure[3][2]
            /\ Len(pure[3][1]) = 1
            /\ IF Len(payload) < 2 THEN pure[3][1][1] = <<ERR_INVALID_FRAME, <<>>>>
               ELSE IF idx >= Len(held) THEN pure[3][1][1] = <<ERR_VM_ERROR, <<>>>>
               ELSE pure[3][1][1] =
                        <<ERR_OK, <<Len(name)>> \o name \o
                                  <<Len(code) % 256, Len(code) \div 256>> \o code>>

\* C29, amended: as stated, but of a name longer than 63 bytes only the first
\* 63 are sent, with 63 as the name length.
C29_QueryWord ==
    pure[1] = "handle_cmd_query_word" =>
        LET held == pure[2][1]
            payload == pure[2][2]
            idx == payload[1] + 256 * payload[2]
            name == IF held[idx + 1][1] THEN <<>> ELSE held[idx + 1][2]
            sent == IF Len(name) > 63 THEN SubSeq(name, 1, 63) ELSE name
            code == held[idx + 1][3]
        IN  /\ pure[3][2]
            /\ Len(pure[3][1]) = 1
            /\ IF Len(payload) < 2 THEN pure[3][1][1] = <<ERR_INVALID_FRAME, <<>>>>
               ELSE IF idx >= Len(held) THEN pure[3][1][1] = <<ERR_VM_ERROR, <<>>>>
               ELSE pure[3][1][1] =
                        <<ERR_OK, <<Len(sent)>> \o sent \o
                                  <<Len(code) % 256, Len(code) \div 256>> \o code>>

\* the word with the 64-byte name was queried: the response is OK and carries
\* 63 as the name length, 63 name bytes, and the two bytes of code
C29_Witness ==
    /\ pure[1] = "handle_cmd_query_word"
    /\ pure[2][2] = <<0, 0>>
    /\ Len(pure[2][1]) > 0
    /\ pure[2][1][1][2] = LongName
    /\ pure[3][1] = <<<<ERR_OK, <<63>> \o Name63 \o <<2, 0, 1, 81>>>>>>
    /\ pure[3][2]

\* C30 as stated: while the frame in the buffer declares a length up to the
\* configured buffer size, the buffer holds no more bytes than the constructor
\* reserved (buffer_size + 4) and its capacity is still the reserved one.
C30_Original ==
    frame_len_ <= buffer_size =>
        /\ Len(buffer_) <= buffer_size + 4
        /\ capacity = buffer_size + 4

\* C31: a call of reset() resets the VM and leaves the receiver state, the
\* frame buffer and its capacity, the cursor, the declared length and the
\* command byte as they were; nothing is written to the sink.
C31_ResetKeepsReceiver ==
    [][(fed' = -1 /\ vm_calls' = <<<<"vm_reset">>>>) =>
           /\ UNCHANGED <<state_, buffer_, capacity, pos_, frame_len_, cmd_>>
           /\ uart_out' = <<>>
           /\ acks' = <<>>
           /\ vm_words' = <<>> /\ vm_ds' = <<>> /\ vm_rs' = <<>>]_vars

\* reset() was called in the middle of a frame: the VM is empty and the
\* receiver still waits for payload bytes of the frame it holds
C31_Witness ==
    /\ fed = -1 /\ vm_calls = <<<<"vm_reset">>>>
    /\ state_ = "WAIT_DATA" /\ Len(buffer_) > 4 /\ wire # <<>>
    /\ vm_words = <<>>
    /\ uart_out = <<>>

\* C32 as stated: buffer_capacity(), through v4link_buffer_capacity on a valid
\* handle, returns the buffer size the link was created with (the default
\* when 0 was given), and v4link_buffer_capacity returns 0 for a NULL handle.
C32_Original ==
    pure[1] = "v4link_buffer_capacity" =>
        IF pure[2][1] = "null" THEN pure[3] = 0
        ELSE pure[3] = v4link_create_size(pure[2][2])

C34_Original ==
    /\ buffer_capacity(capacity) = buffer_capacity(buffer_size + 4)
    /\ (host.kind = "oversize" /\ host.aligned /\ wire = <<>>) =>
           /\ state_ = "WAIT_STX"
           /\ acks = <<<<ERR_BUFFER_FULL, <<>>>>>>

\* C35 as stated: after any sequence of frames and reset() calls the bytecode
\* storage holds exactly one buffer for each word registered in the VM, in
\* registration order, and no buffer without a word.
C35_Original ==
    ~ub =>
        /\ Len(bytecode_storage_) = Len(vm_words)
        /\ \A i \in 1..Len(vm_words) : vm_words[i].buf = i

\* C36: when the VM refuses a registration during EXEC, the response is
\* VM_ERROR alone, the refused registration is the last thing asked of the VM
\* (no later record, no main block, no execution), the storage holds what it
\* held before plus the buffers of the words registered earlier in the request,
\* the refused copy is not in it, and the earlier words are in the VM's table
\* with those buffers.
C36_RefusedRegistration ==
    [][\A k \in 1..Len(vm_calls') :
           (/\ fed' # -1 /\ pure' = pure
            /\ vm_calls'[k][1] = "vm_register_word"
            /\ vm_calls'[k][5] < 0) =>
               /\ k = Len(vm_calls')
               /\ acks' = <<<<ERR_VM_ERROR, <<>>>>>>
               /\ Len(uart_out') = 1
               /\ bytecode_storage_' =
                      bytecode_storage_ \o [j \in 1..(k - 1) |-> vm_calls'[j][4]]
               /\ Len(vm_words') = Len(vm_words) + (k - 1)
               /\ \A j \in 1..(k - 1) :
                      /\ vm_calls'[j][1] = "vm_register_word"
                      /\ vm_calls'[j][5] = Len(vm_words) + j - 1
                      /\ vm_words'[Len(vm_words) + j].buf = Len(bytecode_storage_) + j
               /\ \A i \in 1..Len(vm_words) : vm_words'[i] = vm_words[i]]_vars

\* the VM refused the main block of a container after it had registered the
\* two named words, while the storage held a buffer from before a reset()
C36_Witness ==
    /\ Len(vm_calls) = 3
    /\ vm_calls[3][1] = "vm_register_word" /\ vm_calls[3][2] /\ vm_calls[3][5] < 0
    /\ acks = <<<<ERR_VM_ERROR, <<>>>>>>
    /\ Len(vm_words) = 2
    /\ Len(bytecode_storage_) = 3
    /\ bytecode_storage_[2] = WordA.code /\ bytecode_storage_[3] = WordB.code

\* C37 as stated: when a container was loaded into a VM that held words
\* already, the main block registered with the VM is the payload's code with
\* every CALL operand shifted by the number of words that were present.
C37_Original ==
    (/\ fed # -1 /\ dispatched # <<>> /\ pure = NoCall
     /\ dispatched[1] = EXEC /\ IsV4B(dispatched[2])
     /\ host.words > 0) =>
        LET payload == dispatched[2]
            code == SubSeq(payload, 17, 16 + U32LE(payload, 8).lo)
        IN  \A k \in 1..Len(vm_calls) :
                (vm_calls[k][1] = "vm_register_word" /\ vm_calls[k][2]) =>
                    vm_calls[k][4] = relocate_calls(code, Len(code), host.words)[1]

\* C38 as stated: every response frame written to the sink for a QUERY_STACK
\* or QUERY_WORD request carries at most 512 payload bytes, starts with 0xA5,
\* has a little-endian length field of 1 + the number of extra payload bytes,
\* and ends with the CRC-8 of the bytes between the start marker and itself.
C38_Original ==
    pure[1] \in {"handle_cmd_query_stack", "handle_cmd_query_word"} =>
        LET acks_ == IF pure[1] = "handle_cmd_query_stack" THEN pure[3] ELSE pure[3][1]
        IN  \A i \in 1..Len(acks_) :
                /\ Len(acks_[i][2]) <= MAX_PAYLOAD_SIZE
                /\ LET frame == Written(acks_)[i]
                       n == Len(frame) - 5
                   IN  /\ n = Len(acks_[i][2])
                       /\ frame[1] = STX
                       /\ frame[2] + 256 * frame[3] = 1 + n
                       /\ frame[Len(frame)] = calc_crc8(SubSeq(frame, 2, Len(frame) - 1))

C40_BufferMatchesState ==
    /\ state_ = "WAIT_LEN_L" => Len(buffer_) = 1
    /\ state_ = "WAIT_LEN_H" => Len(buffer_) = 2
    /\ state_ = "WAIT_CMD" =>
           /\ Len(buffer_) = 3
           /\ frame_len_ = buffer_[2] + 256 * buffer_[3]
    /\ state_ = "WAIT_DATA" =>
           /\ Len(buffer_) = 4 + pos_
           /\ 0 <= pos_ /\ pos_ < frame_len_
    /\ state_ = "WAIT_CRC" =>
           /\ Len(buffer_) = 4 + frame_len_
           /\ cmd_ = buffer_[4]
    /\ state_ # "WAIT_STX" => buffer_[1] = STX

\* the receiver waits for the checksum of a frame of the largest payload
C40_Witness ==
    /\ state_ = "WAIT_CRC"
    /\ frame_len_ = buffer_size
    /\ Len(buffer_) = 4 + buffer_size
    /\ pos_ = frame_len_
    /\ cmd_ = PING

====
